---- MODULE Spec2Model ----
(***************************************************************************)
(* check_mail_loop.py: the retrieval half of the SMTP-to-IMAP loop check.  *)
(* One run of main() after the message was sent: imap_retrieve_mail polls   *)
(* the configured mailboxes in three rounds with a growing wait, each scan  *)
(* being one call of imap_search_server, and main maps the MailFound value  *)
(* to the process exit code.  The IMAP server is the environment: it holds  *)
(* the mailboxes, may receive mail while the run is in progress, and may    *)
(* answer SELECT or SEARCH with NO.                                         *)
(***************************************************************************)
EXTENDS Integers, Sequences, FiniteSets, TLC

\* ---------------------------------------------------------------- bounds
MaxInit == 1        \* messages in each mailbox when the run logs in
MaxDeliver == 1     \* messages the server receives while the run is in progress
MaxDelay == 1       \* largest base delay (--delay) tried
MaxScan == 3        \* messages in the mailbox of the single-mailbox specification

\* ------------------------------------------------------- program constants
RangeEnd == 3       \* for i in range(0, 3)

MailFound == {"UNDEFINED", "FOUND", "FOUND_IN_SPAM", "NOT_FOUND"}

\* ------------------------------------------------------------ the messages
\* A header value is a string, modelled as a sequence of characters; "t" is
\* the uuid of this run, "u" the uuid of some other run, " " is whitespace.
expected_token == <<"t">>

RawValues == { <<"t">>, <<"u">> }

IdHeader == "X-Icinga-Test-Id"

\* The header block of a message: its lines, each a header name and the text
\* after "<name>: ".
Headers ==
    { <<[name |-> "Subject", value |-> <<"m">>]>> }
      \cup { <<[name |-> "Subject", value |-> <<"m">>], [name |-> IdHeader, value |-> v]>> : v \in RawValues }

\* More header values, for the specification that looks at the scan of one
\* mailbox: the token with whitespace around it, and a value that only starts
\* with the token.
RichValues == { <<"t">>, <<" ", "t", " ">>, <<"u">>, <<"t", "u">> }

RichHeaders ==
    { <<[name |-> "Subject", value |-> <<"m">>]>> }
      \cup { <<[name |-> "Subject", value |-> <<"m">>], [name |-> IdHeader, value |-> v]>> : v \in RichValues }

Boxes == {"INBOX", "Junk"}

\* --imap-spam: absent (None, modelled as the empty string, equally falsy) or
\* the name of the spam mailbox.
SpamOptions == {"", "Junk"}

VARIABLES
    cleanup_flag,   \* --imap-cleanup
    imap_spambox,   \* --imap-spam
    delay,          \* --delay
    mbox,           \* server: mailbox name -> sequence of messages (sequence number = index)
    selected,       \* server: the mailbox the session has selected, or "none"
    loggedIn,       \* server: the session exists
    pc,             \* position of the run
    i,              \* imap_retrieve_mail: round index
    mi,             \* imap_retrieve_mail: index into mailboxes
    status,         \* imap_retrieve_mail: status
    token_found,    \* imap_search_server: token_found
    token,          \* imap_search_server: token
    data_mlist,     \* imap_search_server: the sequence numbers SEARCH ALL returned
    k,              \* imap_search_server: position in data_mlist
    result,         \* main: status, "none" before imap_retrieve_mail returned
    exitCode,       \* process exit status, -1 while the process runs
    \* history, read only by the properties
    waits,          \* the wait of each round so far
    nscans,         \* mailbox name -> number of calls of imap_search_server
    logouts,        \* number of LOGOUT commands
    fault,          \* "none", or the command the server refused: "select", "search"
    visited,        \* ids of the messages the current scan fetched
    held,           \* mailbox name -> every message the server received
    delivered,      \* number of messages received during the run
    listedT,        \* mailbox name -> a SEARCH of it listed a message carrying the token
    scanlog         \* the scans that returned to imap_retrieve_mail: mailbox, round, status

vars == <<cleanup_flag, imap_spambox, delay, mbox, selected, loggedIn, pc, i, mi,
          status, token_found, token, data_mlist, k, result, exitCode,
          waits, nscans, logouts, fault, visited, held, delivered, listedT, scanlog>>

cfg == <<cleanup_flag, imap_spambox, delay>>
scanLocals == <<token_found, token, data_mlist, k>>

\* ----------------------------------------------------------- pure helpers
RECURSIVE LStrip(_)
LStrip(s) == IF s # <<>> /\ Head(s) = " " THEN LStrip(Tail(s)) ELSE s

RECURSIVE RStrip(_)
RStrip(s) == IF s # <<>> /\ s[Len(s)] = " " THEN RStrip(SubSeq(s, 1, Len(s) - 1)) ELSE s

\* str.strip()
StripLeftOnly(s) == LStrip(s)
Strip(s) == RStrip(LStrip(s))

\* for line in email.header.splitlines(): the token after the lines of one
\* message, starting from the value the variable had before
RECURSIVE ParseLines(_, _)
ParseLines(lines, tok) ==
    IF lines = <<>> THEN tok
    ELSE ParseLines(Tail(lines),
                    IF Head(lines).name = IdHeader THEN Strip(Head(lines).value) ELSE tok)

\* if mailbox == "INBOX": FOUND else: FOUND_IN_SPAM
FoundStatusAlwaysFound(mailbox) == "FOUND"
FoundStatusSwapped(mailbox) == IF mailbox = "INBOX" THEN "FOUND_IN_SPAM" ELSE "FOUND"
FoundStatus(mailbox) == IF mailbox = "INBOX" THEN "FOUND" ELSE "FOUND_IN_SPAM"

\* if token == expected_token
TokenMatchesPrefix(tok) == Len(tok) <= Len(expected_token) /\ tok = SubSeq(expected_token, 1, Len(tok))
TokenMatches(tok) == tok = expected_token

\* token_found = MailFound.NOT_FOUND, on entry of imap_search_server
InitialTokenFoundUndefined == "UNDEFINED"
InitialTokenFound == "NOT_FOUND"

\* mailboxes = [imap_spambox]? + ["INBOX"]
MailboxesInboxFirst(spambox) == <<"INBOX">> \o (IF spambox # "" THEN <<spambox>> ELSE <<>>)
Mailboxes(spambox) == (IF spambox # "" THEN <<spambox>> ELSE <<>>) \o <<"INBOX">>

\* curr_delay = delay * pow(i+1, 2)
CurrDelayLinear(d, r) == d * (r + 1)
CurrDelay(d, r) == d * (r + 1) * (r + 1)

\* main: the if/elif chain over status
ExitCodeEnumValue(s) ==
    IF s = "UNDEFINED" THEN 0 ELSE IF s = "FOUND" THEN 1
    ELSE IF s = "FOUND_IN_SPAM" THEN 2 ELSE 3
ExitCode(s) ==
    IF s = "FOUND" THEN 0
    ELSE IF s = "FOUND_IN_SPAM" THEN 1
    ELSE IF s = "NOT_FOUND" THEN 2
    ELSE 3

\* the messages of a sequence that are not flagged \Deleted
RECURSIVE Unflagged(_)
Unflagged(ms) ==
    IF ms = <<>> THEN <<>>
    ELSE (IF Head(ms).deleted THEN <<>> ELSE <<Head(ms)>>) \o Unflagged(Tail(ms))

Ids(ms) == { ms[n].id : n \in 1..Len(ms) }

\* a message carries the token of this run
Carries(m) == \E n \in 1..Len(m.header) :
                 m.header[n].name = IdHeader /\ Strip(m.header[n].value) = expected_token

SeqsUpTo(S, n) == UNION { [1..len -> S] : len \in 0..n }

Mk(hs, base) == [n \in 1..Len(hs) |-> [id |-> base + n, header |-> hs[n], deleted |-> FALSE]]

\* ------------------------------------------------------------------- Init
Init ==
    /\ cleanup_flag \in BOOLEAN
    /\ imap_spambox \in SpamOptions
    /\ delay \in {0, MaxDelay}
    /\ \E hi \in SeqsUpTo(Headers, MaxInit), hj \in SeqsUpTo(Headers, MaxInit) :
          /\ mbox = [b \in Boxes |-> IF b = "INBOX" THEN Mk(hi, 0) ELSE Mk(hj, MaxInit)]
          /\ held = mbox
    /\ selected = "none"
    /\ loggedIn = TRUE
    /\ pc = "round"
    /\ i = 0
    /\ mi = 1
    /\ status = "NOT_FOUND"
    /\ token_found = "NOT_FOUND"
    /\ token = <<>>
    /\ data_mlist = <<>>
    /\ k = 1
    /\ result = "none"
    /\ exitCode = -1
    /\ waits = <<>>
    /\ nscans = [b \in Boxes |-> 0]
    /\ logouts = 0
    /\ fault = "none"
    /\ visited = {}
    /\ delivered = 0
    /\ listedT = [b \in Boxes |-> FALSE]
    /\ scanlog = <<>>

\* ---------------------------------------------------------------- actions
\* the mailbox of the current iteration of "for mailbox in mailboxes"
mailbox == Mailboxes(imap_spambox)[mi]

\* for i in range(0, 3): is there another round
MoreRoundsOffByOne(r) == r <= RangeEnd
MoreRounds(r) == r < RangeEnd

\* if status != MailFound.NOT_FOUND: logout and return
ReturnsEarlyOnlyFound(s) == s = "FOUND"
ReturnsEarlyOnMatch(s) == s \in {"FOUND", "FOUND_IN_SPAM"}
ReturnsEarly(s) == s # "NOT_FOUND"

\* if cleanup_flag: server.store(num, '+FLAGS', '\\Deleted')
StoreAlways(flag, ms, num) == [ms EXCEPT ![num].deleted = TRUE]
Store(flag, ms, num) == IF flag THEN [ms EXCEPT ![num].deleted = TRUE] ELSE ms

\* The start of a round: the wait, then the first mailbox.  A delay that is
\* not positive skips time.sleep, which is a wait of 0.
Sleep ==
    /\ pc = "round"
    /\ MoreRounds(i)
    /\ LET curr_delay == CurrDelay(delay, i)
       IN  waits' = Append(waits, IF curr_delay > 0 THEN curr_delay ELSE 0)
    /\ mi' = 1
    /\ pc' = "select"
    /\ UNCHANGED <<cfg, mbox, selected, loggedIn, i, status, scanLocals, result, exitCode,
                   nscans, logouts, fault, visited, held, delivered, listedT, scanlog>>

\* The round loop is exhausted: fall through to the logout of line 170.
LoopExhausted ==
    /\ pc = "round"
    /\ ~MoreRounds(i)
    /\ pc' = "logout"
    /\ UNCHANGED <<cfg, mbox, selected, loggedIn, i, mi, status, scanLocals, result, exitCode,
                   waits, nscans, logouts, fault, visited, held, delivered, listedT, scanlog>>

\* imap_search_server is entered and server.select(mailbox) answers OK with
\* the message count.
SelectOk ==
    /\ pc = "select"
    /\ token_found' = InitialTokenFound
    /\ token' = <<>>
    /\ selected' = mailbox
    /\ nscans' = [nscans EXCEPT ![mailbox] = @ + 1]
    /\ visited' = {}
    /\ pc' = "search"
    /\ UNCHANGED <<cfg, mbox, loggedIn, i, mi, status, data_mlist, k, result, exitCode,
                   waits, logouts, fault, held, delivered, listedT, scanlog>>

\* server.select(mailbox) answers NO: imaplib hands back the server's text
\* instead of a count, int() of it raises ValueError, nothing catches it, and
\* the interpreter ends the process with a traceback and exit status 1.
SelectFails ==
    /\ pc = "select"
    /\ token_found' = InitialTokenFound
    /\ token' = <<>>
    /\ nscans' = [nscans EXCEPT ![mailbox] = @ + 1]
    /\ visited' = {}
    /\ fault' = "select"
    /\ exitCode' = 1
    /\ pc' = "crashed"
    /\ UNCHANGED <<cfg, mbox, selected, loggedIn, i, mi, status, data_mlist, k, result,
                   waits, logouts, held, delivered, listedT, scanlog>>

\* server.search(None, 'ALL') answers OK with the sequence numbers of the
\* messages now in the mailbox.
SearchOk ==
    /\ pc = "search"
    /\ data_mlist' = [n \in 1..Len(mbox[selected]) |-> n]
    /\ k' = 1
    /\ listedT' = [listedT EXCEPT ![selected] = @ \/ \E n \in 1..Len(mbox[selected]) : Carries(mbox[selected][n])]
    /\ pc' = "msg"
    /\ UNCHANGED <<cfg, mbox, selected, loggedIn, i, mi, status, token_found, token, result,
                   exitCode, waits, nscans, logouts, fault, visited, held, delivered, scanlog>>

\* typ != "OK": return MailFound.UNDEFINED, the mailbox stays selected.
SearchFails ==
    /\ pc = "search"
    /\ status' = "UNDEFINED"
    /\ scanlog' = Append(scanlog, [mb |-> mailbox, rnd |-> i, st |-> "UNDEFINED"])
    /\ fault' = "search"
    /\ pc' = "check"
    /\ UNCHANGED <<cfg, mbox, selected, loggedIn, i, mi, scanLocals, result, exitCode,
                   waits, nscans, logouts, visited, held, delivered, listedT>>

\* the iteration without the break of line 225
ScanMessageNoBreak ==
    /\ pc = "msg"
    /\ k <= Len(data_mlist)
    /\ LET num   == data_mlist[k]
           m     == mbox[selected][num]
           fetch == token_found = "NOT_FOUND"
           tok   == IF fetch THEN ParseLines(m.header, token) ELSE token
           hit   == fetch /\ TokenMatches(tok)
       IN  /\ token' = tok
           /\ visited' = IF fetch THEN visited \cup {m.id} ELSE visited
           /\ token_found' = IF hit THEN FoundStatus(selected) ELSE token_found
           /\ mbox' = [mbox EXCEPT ![selected] = Store(cleanup_flag, @, num)]
           /\ k' = k + 1
    /\ UNCHANGED <<cfg, selected, loggedIn, pc, i, mi, status, data_mlist, result, exitCode,
                   waits, nscans, logouts, fault, held, delivered, listedT, scanlog>>

\* One iteration of "for num in data_mlist[0].split()": fetch and parse the
\* message, compare the token, break on a match, else mark it when cleaning up.
ScanMessage ==
    /\ pc = "msg"
    /\ k <= Len(data_mlist)
    /\ LET num   == data_mlist[k]
           m     == mbox[selected][num]
           fetch == token_found = "NOT_FOUND"
           tok   == IF fetch THEN ParseLines(m.header, token) ELSE token
           hit   == fetch /\ TokenMatches(tok)
       IN  /\ token' = tok
           /\ visited' = visited \cup {m.id}
           /\ IF hit
              THEN /\ token_found' = FoundStatus(selected)
                   /\ pc' = "expunge"
                   /\ UNCHANGED <<mbox, k>>
              ELSE /\ mbox' = [mbox EXCEPT ![selected] = Store(cleanup_flag, @, num)]
                   /\ k' = k + 1
                   /\ UNCHANGED <<token_found, pc>>
    /\ UNCHANGED <<cfg, selected, loggedIn, i, mi, status, data_mlist, result, exitCode,
                   waits, nscans, logouts, fault, held, delivered, listedT, scanlog>>

\* The message loop ran out of sequence numbers.
EndOfList ==
    /\ pc = "msg"
    /\ k > Len(data_mlist)
    /\ pc' = "expunge"
    /\ UNCHANGED <<cfg, mbox, selected, loggedIn, i, mi, status, scanLocals, result, exitCode,
                   waits, nscans, logouts, fault, visited, held, delivered, listedT, scanlog>>

\* if cleanup_flag: server.expunge()
Expunge ==
    /\ pc = "expunge"
    /\ mbox' = IF cleanup_flag THEN [mbox EXCEPT ![selected] = Unflagged(@)] ELSE mbox
    /\ pc' = "close"
    /\ UNCHANGED <<cfg, selected, loggedIn, i, mi, status, scanLocals, result, exitCode,
                   waits, nscans, logouts, fault, visited, held, delivered, listedT, scanlog>>

\* server.close() and return token_found.  CLOSE also removes the messages
\* of the mailbox that are flagged \Deleted (RFC 3501, 6.4.2).
Close ==
    /\ pc = "close"
    /\ mbox' = [mbox EXCEPT ![selected] = Unflagged(@)]
    /\ selected' = "none"
    /\ status' = token_found
    /\ scanlog' = Append(scanlog, [mb |-> mailbox, rnd |-> i, st |-> token_found])
    /\ pc' = "check"
    /\ UNCHANGED <<cfg, loggedIn, i, mi, scanLocals, result, exitCode,
                   waits, nscans, logouts, fault, visited, held, delivered, listedT>>

\* Back in imap_retrieve_mail with the scan's status: return early, go to the
\* next mailbox of the round, or go to the next round.
Check ==
    /\ pc = "check"
    /\ IF ReturnsEarly(status)
       THEN pc' = "logout" /\ UNCHANGED <<i, mi>>
       ELSE IF mi < Len(Mailboxes(imap_spambox))
            THEN mi' = mi + 1 /\ pc' = "select" /\ UNCHANGED i
            ELSE i' = i + 1 /\ pc' = "round" /\ UNCHANGED mi
    /\ UNCHANGED <<cfg, mbox, selected, loggedIn, status, scanLocals, result, exitCode,
                   waits, nscans, logouts, fault, visited, held, delivered, listedT, scanlog>>

\* server.logout(), on line 167 or line 170.  The session ends, and with it
\* whatever selection it had; LOGOUT purges nothing.
Logout ==
    /\ pc = "logout"
    /\ loggedIn' = FALSE
    /\ selected' = "none"
    /\ logouts' = logouts + 1
    /\ pc' = "ret"
    /\ UNCHANGED <<cfg, mbox, i, mi, status, scanLocals, result, exitCode,
                   waits, nscans, fault, visited, held, delivered, listedT, scanlog>>

\* return status; main maps it to the exit code and sys.exit ends the process.
Return ==
    /\ pc = "ret"
    /\ result' = status
    /\ exitCode' = ExitCode(status)
    /\ pc' = "done"
    /\ UNCHANGED <<cfg, mbox, selected, loggedIn, i, mi, status, scanLocals,
                   waits, nscans, logouts, fault, visited, held, delivered, listedT, scanlog>>

\* The server receives a message into a mailbox: before a scan starts (during
\* the wait or between two scans) or between the SELECT and the SEARCH of a
\* scan.  SEARCH is the only command by which the run learns what a mailbox
\* holds, so a message received later in a scan acts as one received right
\* after it.
Deliver(b, h) ==
    /\ pc \in {"select", "search"}
    /\ delivered < MaxDeliver
    /\ LET m == [id |-> 2 * MaxInit + delivered + 1, header |-> h, deleted |-> FALSE]
       IN  /\ mbox' = [mbox EXCEPT ![b] = Append(@, m)]
           /\ held' = [held EXCEPT ![b] = Append(@, m)]
    /\ delivered' = delivered + 1
    /\ UNCHANGED <<cfg, selected, loggedIn, pc, i, mi, status, scanLocals, result, exitCode,
                   waits, nscans, logouts, fault, visited, listedT, scanlog>>

Next ==
    \/ Sleep
    \/ LoopExhausted
    \/ SelectOk
    \/ SelectFails
    \/ SearchOk
    \/ SearchFails
    \/ ScanMessage
    \/ EndOfList
    \/ Expunge
    \/ Close
    \/ Check
    \/ Logout
    \/ Return
    \/ \E b \in Boxes, h \in Headers : Deliver(b, h)

Spec == Init /\ [][Next]_vars

\* The same run against a server that holds mail in one mailbox only, with the
\* richer header values, and receives nothing while the run is in progress.
InitScan ==
    /\ cleanup_flag \in BOOLEAN
    /\ imap_spambox \in SpamOptions
    /\ delay = 0
    /\ \E b \in Boxes, hs \in SeqsUpTo(RichHeaders, MaxScan) :
          /\ mbox = [x \in Boxes |-> IF x = b THEN Mk(hs, 0) ELSE <<>>]
          /\ held = mbox
    /\ selected = "none"
    /\ loggedIn = TRUE
    /\ pc = "round"
    /\ i = 0
    /\ mi = 1
    /\ status = "NOT_FOUND"
    /\ token_found = "NOT_FOUND"
    /\ token = <<>>
    /\ data_mlist = <<>>
    /\ k = 1
    /\ result = "none"
    /\ exitCode = -1
    /\ waits = <<>>
    /\ nscans = [b \in Boxes |-> 0]
    /\ logouts = 0
    /\ fault = "none"
    /\ visited = {}
    /\ delivered = 0
    /\ listedT = [b \in Boxes |-> FALSE]
    /\ scanlog = <<>>

NextScan ==
    \/ Sleep
    \/ LoopExhausted
    \/ SelectOk
    \/ SelectFails
    \/ SearchOk
    \/ SearchFails
    \/ ScanMessage
    \/ EndOfList
    \/ Expunge
    \/ Close
    \/ Check
    \/ Logout
    \/ Return

SpecScan == InitScan /\ [][NextScan]_vars

TypeOK ==
    /\ pc \in {"round", "select", "search", "msg", "expunge", "close", "check", "logout",
               "ret", "done", "crashed"}
    /\ status \in MailFound
    /\ token_found \in MailFound
    /\ result \in MailFound \cup {"none"}
    /\ exitCode \in -1..3
    /\ i \in 0..RangeEnd
    /\ selected \in Boxes \cup {"none"}

\* ------------------------------------------------------------- properties
\* the mailboxes the run is configured to scan
Configured == { Mailboxes(imap_spambox)[n] : n \in 1..Len(Mailboxes(imap_spambox)) }

\* a message carrying the token was at some time in mailbox b
Appeared(b) == \E n \in 1..Len(held[b]) : Carries(held[b][n])

ExpectedWaits == <<delay, 4 * delay, 9 * delay>>

Scanning == pc \in {"select", "search", "msg", "expunge", "close", "check"}

\* C1: a run in which the token never appears in a configured mailbox, and in
\* which the server refuses no command, yields NOT_FOUND and exit code 2 after
\* exactly three rounds: three waits, and three scans of every configured
\* mailbox (none of a mailbox that is not configured).
C1_NotFoundAfterThreeRounds ==
    (pc = "done" /\ fault = "none" /\ \A b \in Configured : ~Appeared(b))
        => /\ result = "NOT_FOUND"
           /\ exitCode = 2
           /\ Len(waits) = 3
           /\ \A b \in Boxes : nscans[b] = IF b \in Configured THEN 3 ELSE 0

C1_Witness ==
    /\ pc = "done" /\ fault = "none"
    /\ \A b \in Configured : ~Appeared(b)
    /\ imap_spambox = "Junk"
    /\ Len(held["INBOX"]) = 2
    /\ nscans["Junk"] = 3

\* C2: if a SEARCH of INBOX listed a message carrying the token, in whichever
\* round, the run yields FOUND and exit code 0.
C2_FoundInInbox ==
    (pc = "done" /\ listedT["INBOX"]) => (result = "FOUND" /\ exitCode = 0)

C2_Witness ==
    /\ pc = "done" /\ listedT["INBOX"]
    /\ i = 2
    /\ cleanup_flag
    /\ imap_spambox = "Junk"
    /\ Len(held["INBOX"]) = 2
    /\ ~Carries(held["INBOX"][1])

\* C3: if the token is in the configured spam mailbox when it is searched and
\* never in INBOX, the run yields FOUND_IN_SPAM and exit code 1.
C3_FoundInSpam ==
    (pc = "done" /\ imap_spambox # "" /\ listedT[imap_spambox] /\ ~Appeared("INBOX"))
        => (result = "FOUND_IN_SPAM" /\ exitCode = 1)

C3_Witness ==
    /\ pc = "done" /\ imap_spambox = "Junk" /\ listedT["Junk"] /\ ~Appeared("INBOX")
    /\ i = 1
    /\ Len(held["INBOX"]) = 1

\* C4: when the SELECT of the run fails, the run yields UNDEFINED and exit
\* code 3.
C4_SelectFailureIsUndefined ==
    (fault = "select" /\ pc \in {"done", "crashed"}) => (result = "UNDEFINED" /\ exitCode = 3)

\* C5: with cleanup enabled, when a scan is about to close its mailbox, every
\* message the scan visited, the matching one included, is gone from it.
C5_VisitedArePurged ==
    (cleanup_flag /\ pc = "close") => (Ids(mbox[selected]) \cap visited = {})

\* C6: with cleanup disabled, every mailbox holds at every moment exactly the
\* messages the server received, none of them flagged \Deleted.
C6_NoCleanupNoChange ==
    ~cleanup_flag => mbox = held

C6_Witness ==
    /\ ~cleanup_flag
    /\ pc = "done" /\ result = "FOUND"
    /\ imap_spambox = "Junk" /\ Len(mbox["Junk"]) = 1
    /\ Len(mbox["INBOX"]) = 2

\* C7: whichever way imap_retrieve_mail is left after the login, the session
\* was logged out exactly once, before the outcome reaches the caller.
C7_LogoutOnEveryExit ==
    (pc \in {"ret", "done", "crashed"}) => (logouts = 1 /\ ~loggedIn)

\* C8: the waits of the rounds are d, 4d and 9d in this order, and while the
\* mailboxes of round i+1 are scanned exactly the first i+1 of them are over.
C8_Backoff ==
    /\ Len(waits) <= 3
    /\ waits = SubSeq(ExpectedWaits, 1, Len(waits))
    /\ Scanning => Len(waits) = i + 1

C8_Witness ==
    /\ delay > 0
    /\ waits = <<delay, 4 * delay, 9 * delay>>
    /\ pc = "search"
    /\ i = 2

StopsAfterMatch ==
    status \in {"FOUND", "FOUND_IN_SPAM"}
        => /\ status' = status
           /\ pc' \in {"logout", "ret", "done"}
           /\ waits' = waits /\ nscans' = nscans /\ mbox' = mbox /\ i' = i /\ mi' = mi
           /\ (pc' = "done" => result' = status)

\* C9: from the moment a scan has handed FOUND or FOUND_IN_SPAM to
\* imap_retrieve_mail, the only steps are the logout and the return of that
\* status: no wait, no scan, no change of a mailbox.
C9_StopAtFirstMatch == [][StopsAfterMatch]_vars

C9_Witness ==
    /\ pc = "done" /\ result = "FOUND_IN_SPAM"
    /\ nscans["INBOX"] = 0 /\ nscans["Junk"] = 1
    /\ Appeared("INBOX")
    /\ waits = <<delay>>

\* C10: a run that returns from main ends with exactly one of the four
\* MailFound values, and the exit code is 0 for FOUND, 1 for FOUND_IN_SPAM,
\* 2 for NOT_FOUND and 3 for UNDEFINED.
C10_ExitCodes ==
    pc = "done" =>
        \/ result = "FOUND" /\ exitCode = 0
        \/ result = "FOUND_IN_SPAM" /\ exitCode = 1
        \/ result = "NOT_FOUND" /\ exitCode = 2
        \/ result = "UNDEFINED" /\ exitCode = 3

C10_Witness ==
    pc = "done" /\ result = "UNDEFINED" /\ exitCode = 3

\* a scan is in progress or has just handed its status back
InScan == pc \in {"search", "msg", "expunge", "close", "check"}

\* C11: with a spam mailbox configured, the spam mailbox of a round is scanned
\* before INBOX and INBOX is the last mailbox of every round; without one,
\* only INBOX is ever scanned.
C11_SpamBeforeInbox ==
    /\ imap_spambox = "" => nscans["Junk"] = 0
    /\ (InScan /\ mailbox = "INBOX")
          => /\ nscans["INBOX"] = i + 1
             /\ imap_spambox # "" => nscans[imap_spambox] = i + 1
    /\ (InScan /\ mailbox # "INBOX")
          => /\ mailbox = imap_spambox
             /\ nscans[mailbox] = i + 1
             /\ nscans["INBOX"] = i
    /\ (pc = "round" /\ i > 0) => scanlog[Len(scanlog)].mb = "INBOX"

C11_Witness ==
    /\ imap_spambox = "Junk"
    /\ pc = "msg" /\ selected = "INBOX"
    /\ i = 1
    /\ nscans["Junk"] = 2

\* C12: a run in which the server refused a command does not end in the round
\* of the refusal unless that is the third round: it returns UNDEFINED only
\* after three rounds, and before that only FOUND or FOUND_IN_SPAM.
C12_FailureIsRetried ==
    (pc = "done" /\ fault # "none")
        => \/ result \in {"FOUND", "FOUND_IN_SPAM"}
           \/ result = "UNDEFINED" /\ Len(waits) = 3

\* the message the next iteration of the message loop looks at
CurrentMsg == mbox[selected][data_mlist[k]]

HasIdHeader(m) == \E n \in 1..Len(m.header) : m.header[n].name = IdHeader

HeaderlessKeepsState ==
    (pc = "msg" /\ k <= Len(data_mlist) /\ ~HasIdHeader(CurrentMsg))
        => (token_found' = token_found /\ token' = token /\ pc' = "msg" /\ k' = k + 1)

\* C13: the iteration of the message loop over a message without an
\* X-Icinga-Test-Id header leaves token_found (and the token kept from the
\* messages before it) as it was and the loop goes on, wherever the message
\* stands in the scan order.
C13_HeaderlessNeverMatches == [][HeaderlessKeepsState]_vars

C13_Witness ==
    /\ pc = "msg" /\ k = 3 /\ Len(data_mlist) = 3
    /\ ~cleanup_flag
    /\ token = <<"u">>
    /\ token_found = "NOT_FOUND"
    /\ ~HasIdHeader(mbox[selected][2])
    /\ Carries(mbox[selected][3])

RECURSIVE SumSeq(_)
SumSeq(q) == IF q = <<>> THEN 0 ELSE Head(q) + SumSeq(Tail(q))

\* no message list of a later SEARCH is longer than this
ListBound == Len(mbox["INBOX"]) + Len(mbox["Junk"]) + (MaxDeliver - delivered)

\* A bound on the steps the run still takes: the rounds left, the mailboxes
\* left in the round and the commands left in the scan.
StepsLeft ==
    LET nb       == Len(Mailboxes(imap_spambox))
        perScan  == ListBound + 7
        perRound == nb * perScan + 2
        base     == (2 - i) * perRound + 3 + (nb - mi) * perScan
    IN  CASE pc = "round"   -> (3 - i) * perRound + 3
          [] pc = "select"  -> base + ListBound + 6
          [] pc = "search"  -> base + ListBound + 5
          [] pc = "msg"     -> base + 4 + (Len(data_mlist) + 1 - k)
          [] pc = "expunge" -> base + 3
          [] pc = "close"   -> base + 2
          [] pc = "check"   -> base + 1
          [] pc = "logout"  -> 2
          [] pc = "ret"     -> 1
          [] OTHER          -> 0

Ended == pc \in {"done", "crashed"}

RunIsBounded ==
    /\ i <= 3
    /\ Len(waits) <= 3
    /\ \A b \in Boxes : nscans[b] <= 3
    /\ SumSeq(waits) <= 14 * delay
    /\ (i = 3 => pc \in {"round", "logout", "ret", "done"})
    /\ StepsLeft >= 0
    /\ (Ended <=> StepsLeft = 0)
    /\ (~Ended => ENABLED NextScan)

StepsLeftDecreases ==
    /\ StepsLeft' <= StepsLeft
    /\ (<<pc, k>>' # <<pc, k>> => StepsLeft' < StepsLeft)

\* C14: the run performs at most 3 rounds, 3 waits and 3 scans of a mailbox,
\* nothing but the logout and the return follows round 3, the waits add up to
\* at most 14 times the base delay, and the run terminates: while it has not
\* ended it can take a step, and every step of it lowers a bound on the steps
\* left, which is 0 exactly when it has ended.
C14_BoundedAndTerminates == []RunIsBounded /\ [][StepsLeftDecreases]_vars

C14_Witness ==
    /\ pc = "done"
    /\ delay > 0
    /\ Len(waits) = 3 /\ SumSeq(waits) = 14 * delay
    /\ nscans["INBOX"] = 3 /\ nscans["Junk"] = 3

Spaces(n) == [x \in 1..n |-> " "]

\* the value is the expected token with nothing but whitespace around it
IsPaddedToken(v) ==
    \E a \in 0..Len(v), b \in 0..Len(v) : v = Spaces(a) \o expected_token \o Spaces(b)

CarriesTrimmed(m) ==
    \E n \in 1..Len(m.header) : m.header[n].name = IdHeader /\ IsPaddedToken(m.header[n].value)

\* C15: when the message loop of a scan whose SEARCH succeeded is over, the
\* scan's status is a match exactly if some message of the mailbox carries
\* the header with a value that is the expected token up to surrounding
\* whitespace; the match is FOUND in INBOX and FOUND_IN_SPAM in another
\* mailbox, and without one the status is NOT_FOUND.
C15_ScanResult ==
    pc = "expunge" =>
        token_found =
            IF \E n \in 1..Len(mbox[selected]) : CarriesTrimmed(mbox[selected][n])
            THEN (IF selected = "INBOX" THEN "FOUND" ELSE "FOUND_IN_SPAM")
            ELSE "NOT_FOUND"

C15_Witness ==
    /\ pc = "expunge"
    /\ selected = "Junk"
    /\ token_found = "FOUND_IN_SPAM"
    /\ k = 2
    /\ mbox[selected][1].header[Len(mbox[selected][1].header)].value = <<"t", "u">>
    /\ mbox[selected][2].header[Len(mbox[selected][2].header)].value = <<" ", "t", " ">>

\* C16: a scan whose SEARCH lists no message has the status NOT_FOUND, keeps
\* no token, hands NOT_FOUND back and leaves the mailbox empty, also when the
\* mailbox was emptied by the cleanup of an earlier scan and is scanned again.
C16_EmptyMailboxNotFound ==
    /\ (pc \in {"msg", "expunge", "close"} /\ data_mlist = <<>>)
          => (token_found = "NOT_FOUND" /\ token = <<>> /\ mbox[selected] = <<>>)
    /\ (pc = "check" /\ data_mlist = <<>> /\ status # "UNDEFINED")
          => (status = "NOT_FOUND" /\ mbox[mailbox] = <<>>)

C16_Witness ==
    /\ pc = "check"
    /\ cleanup_flag
    /\ held[mailbox] # <<>> /\ mbox[mailbox] = <<>>
    /\ data_mlist = <<>>
    /\ status = "NOT_FOUND"
    /\ nscans[mailbox] = 3
    /\ \A n \in 1..Len(scanlog) : scanlog[n].st = "NOT_FOUND"

\* C17: when the next mailbox is about to be selected, and when the session
\* is about to be logged out, no mailbox is selected any more: every scan,
\* the one whose SEARCH fails included, has closed the mailbox it selected.
C17_ClosedBeforeSelectAndLogout ==
    pc \in {"select", "logout"} => selected = "none"

\* the status of the first scan of the log that is not NOT_FOUND
FirstDefinitive(log) ==
    LET hits == { n \in 1..Len(log) : log[n].st # "NOT_FOUND" }
    IN  IF hits = {} THEN "NOT_FOUND"
        ELSE log[CHOOSE n \in hits : \A x \in hits : n <= x].st

\* the scans were made round by round, the mailboxes of a round in the order
\* spam mailbox, INBOX
RoundMajor(log) ==
    LET boxes == Mailboxes(imap_spambox)
    IN  \A n \in 1..Len(log) :
            /\ log[n].rnd = (n - 1) \div Len(boxes)
            /\ log[n].mb = boxes[((n - 1) % Len(boxes)) + 1]

\* C18: the scans are made in round-major order, and the result of a run that
\* returns is the status of the first scan that is not NOT_FOUND, or
\* NOT_FOUND if there is none; a return after the last round carries
\* NOT_FOUND, each configured mailbox having been scanned three times.
C18_FirstDefinitiveOutcome ==
    /\ RoundMajor(scanlog)
    /\ pc = "done" =>
          /\ result = FirstDefinitive(scanlog)
          /\ i = RangeEnd =>
                /\ result = "NOT_FOUND"
                /\ Len(scanlog) = RangeEnd * Len(Mailboxes(imap_spambox))

C18_Witness ==
    /\ pc = "done"
    /\ imap_spambox = "Junk"
    /\ result = "UNDEFINED"
    /\ Len(scanlog) = 4
    /\ scanlog[4] = [mb |-> "INBOX", rnd |-> 1, st |-> "UNDEFINED"]

\* the scan of the current mailbox ended in a match
ScanMatched ==
    /\ pc \in {"expunge", "close", "check", "logout", "ret", "done"}
    /\ token_found # "NOT_FOUND"

\* the messages the server received into mailbox b after the first one that
\* carries the token
Followers(b) ==
    LET first == CHOOSE n \in 1..Len(held[b]) :
                    /\ CarriesTrimmed(held[b][n])
                    /\ \A x \in 1..(n - 1) : ~CarriesTrimmed(held[b][x])
    IN  { held[b][n] : n \in (first + 1)..Len(held[b]) }

\* C19: once a scan has ended in a match, every message that stands after
\* the matching message in the mailbox was not fetched by the scan and is
\* still in the mailbox, not flagged \Deleted, with and without cleanup.
C19_FollowersUntouched ==
    ScanMatched =>
        \A m \in Followers(mailbox) :
            /\ m.id \notin visited
            /\ \E n \in 1..Len(mbox[mailbox]) : mbox[mailbox][n] = m

C19_Witness ==
    /\ pc = "done" /\ result = "FOUND"
    /\ cleanup_flag
    /\ Len(held["INBOX"]) = 3
    /\ ~CarriesTrimmed(held["INBOX"][1])
    /\ CarriesTrimmed(held["INBOX"][2])
    /\ Len(mbox["INBOX"]) = 2

====
